---- MODULE Spec2Model ----
(***************************************************************************)
(* Model of the project gallery API (server.js): three Express route       *)
(* handlers over a MongoDB collection (Project) and a Cloudinary folder.   *)
(* Every request is one task that suspends at each await; an action is the *)
(* code a task runs between two suspensions, together with the completion  *)
(* of the network call it was waiting for.                                 *)
(***************************************************************************)
EXTENDS Integers, Sequences, FiniteSets, TLC

\* ---- bounds of the model ----
MaxReqs == 3          \* requests received in one behaviour
MaxClock == 2         \* last value Date.now() takes

Reqs == 1..MaxReqs

\* ---- values ----
Undefined == "undefined"      \* a text field absent from the multipart body
\* the title and category fields of the multipart bodies sent
Bodies == {[title |-> "Sunset", category |-> "Landscape"],
           [title |-> Undefined, category |-> "Landscape"],
           [title |-> "Sunset", category |-> ""]}
\* a request either carries a file in the image field or no file at all; without
\* a file the handler answers before it reads the body
Uploads == {<<b, TRUE>> : b \in Bodies} \cup {<<[title |-> "Sunset", category |-> "Landscape"], FALSE>>}
AbsentId == 0                 \* 000000000000000000000000: well-formed, never assigned
ParamIds == {AbsentId, 1, 2}  \* the :id parameters sent

NoFile == [path |-> Undefined, filename |-> Undefined]   \* req.file is undefined
NoDoc == [_id |-> 0, title |-> Undefined, category |-> Undefined,
          imageUrl |-> Undefined, publicId |-> Undefined, createdAt |-> 0]

VARIABLES
  store,        \* the Project collection: a set of documents
  assets,       \* public ids held by the remote asset store
  clock,        \* Date.now()
  nextId,       \* ObjectIds handed out so far
  nextAsset,    \* assets the remote store has created so far
  persistLog,   \* history: _ids in the order the collection inserted them
  constructLog, \* history: _ids in the order the handlers constructed them
  deleted,      \* history: _ids removed by findByIdAndDelete
  reqs          \* the request tasks

vars == <<store, assets, clock, nextId, nextAsset, persistLog, constructLog, deleted, reqs>>

\* a request task: what was sent, where the handler stands, what it answered,
\* and the history of the calls it made and of how they settled
Idle == [method |-> "", title |-> Undefined, category |-> Undefined,
         hasFile |-> FALSE, id |-> AbsentId, pc |-> "idle",
         file |-> NoFile, doc |-> NoDoc,
         status |-> 0, error |-> "", message |-> "", project |-> NoDoc, projects |-> <<>>,
         dbCalls |-> <<>>, cdnCalls |-> <<>>, settled |-> <<>>,
         prior |-> {}, gone |-> {}]

\* history: the awaited call settled, ok or rejected, with the file it returned
Settle(req, call, ok, ret) ==
  [req EXCEPT !.settled = Append(@, [call |-> call, ok |-> ok, ret |-> ret])]

Init ==
  /\ store = {}
  /\ assets = {}
  /\ clock = 1
  /\ nextId = 0
  /\ nextAsset = 0
  /\ persistLog = <<>>
  /\ constructLog = <<>>
  /\ deleted = {}
  /\ reqs = [r \in Reqs |-> Idle]

\* ---- folder and delivery URL of an uploaded asset ----
Folder == "lented-gallery"
PublicIdOf(n) == Folder \o "/" \o ToString(n)
UrlOf(n) == "https://res.cloudinary.com/" \o PublicIdOf(n)

\* ---- schema ----
\* required: true on a String path rejects undefined and the empty string
checkRequiredLax(v) == v # Undefined

checkRequired(v) == v # Undefined /\ v # ""

validate(d) ==
  /\ checkRequired(d.title)
  /\ checkRequired(d.category)
  /\ checkRequired(d.imageUrl)

\* createdAt: { type: Date, default: Date.now }
DefaultCreatedAtReversed == MaxClock - clock

DefaultCreatedAt == clock

\* new Project({title, category, imageUrl: req.file.path, publicId: req.file.filename})
NewProjectSwapped(body, file, oid) ==
  [_id |-> oid, title |-> body.title, category |-> body.category,
   imageUrl |-> file.filename, publicId |-> file.path,
   createdAt |-> DefaultCreatedAt]

NewProject(body, file, oid) ==
  [_id |-> oid, title |-> body.title, category |-> body.category,
   imageUrl |-> file.path, publicId |-> file.filename,
   createdAt |-> DefaultCreatedAt]

\* if (project.publicId)
Truthy(v) == v # Undefined /\ v # ""

\* ---- queries ----
\* sort({createdAt: -1}): no later element is newer than an earlier one
SortedAsc(s) == \A i, j \in 1..Len(s) : i < j => s[i].createdAt <= s[j].createdAt

SortedDesc(s) == \A i, j \in 1..Len(s) : i < j => s[i].createdAt >= s[j].createdAt

\* Project.find().sort({createdAt: -1}): the results the collection may return
FindSorted(coll) ==
  {s \in [1..Cardinality(coll) -> coll] :
     /\ \A i, j \in 1..Cardinality(coll) : i # j => s[i] # s[j]
     /\ SortedDesc(s)}

findById(coll, id) == {d \in coll : d._id = id}

\* the lowest request slot not yet used
Fresh(r) == reqs[r].pc = "idle" /\ \A q \in Reqs : q < r => reqs[q].pc # "idle"

Answered201 == {u \in Reqs : reqs[u].method = "POST" /\ reqs[u].status = 201}

\* ---- the clock advances ----
Tick ==
  /\ clock < MaxClock
  /\ clock' = clock + 1
  /\ UNCHANGED <<store, assets, nextId, nextAsset, persistLog, constructLog, deleted, reqs>>

\* ---- GET /api/projects ----
\* the request as the handler leaves it: find().sort() gave result, or it failed
GetAnswer(req, ok, result) ==
  IF ok
    THEN [req EXCEPT !.pc = "done", !.status = 200, !.projects = result]
    ELSE [req EXCEPT !.pc = "done", !.status = 500, !.error = "find"]

GetProjects(r) ==
  /\ Fresh(r)
  /\ \E ok \in BOOLEAN, s \in FindSorted(store) :
       reqs' = [reqs EXCEPT ![r] =
                  Settle(GetAnswer([Idle EXCEPT !.method = "GET", !.dbCalls = <<"find">>,
                                                !.prior = Answered201, !.gone = deleted],
                                   ok, s),
                         "find", ok, NoFile)]
  /\ UNCHANGED <<store, assets, clock, nextId, nextAsset, persistLog, constructLog, deleted>>

\* ---- POST /api/upload ----
\* upload.single('image') with the Cloudinary storage, run before the handler:
\* the request as the middleware leaves it, ret being the file the store returned
UploadSingle(req, ok, ret) ==
  IF ~req.hasFile
    THEN [req EXCEPT !.pc = "handler"]
    ELSE IF ok
      THEN [req EXCEPT !.pc = "handler", !.file = ret,
                       !.cdnCalls = Append(@, [op |-> "upload", publicId |-> ret.filename])]
      ELSE [req EXCEPT !.pc = "done", !.status = 500, !.error = "upload",
                       !.cdnCalls = Append(@, [op |-> "upload", publicId |-> Undefined])]

\* the handler up to the call of newProject.save(), oid being the new ObjectId
PostHandlerUnchecked(req, oid) ==
  [req EXCEPT !.pc = "save", !.doc = NewProject(req, req.file, oid),
              !.dbCalls = Append(@, "save")]

PostHandler(req, oid) ==
  IF req.file = NoFile
    THEN [req EXCEPT !.pc = "done", !.status = 400, !.error = "No image file uploaded"]
    ELSE [req EXCEPT !.pc = "save", !.doc = NewProject(req, req.file, oid),
                     !.dbCalls = Append(@, "save")]

\* a request arrives; the middleware runs and then, unless it failed, the handler
PostUpload(r, b, f) ==
  /\ Fresh(r)
  /\ \E ok \in BOOLEAN :
       LET arrived == [Idle EXCEPT !.method = "POST", !.title = b.title,
                                   !.category = b.category, !.hasFile = f]
           stored == f /\ ok
           ret == IF stored THEN [path |-> UrlOf(nextAsset + 1),
                                  filename |-> PublicIdOf(nextAsset + 1)]
                            ELSE NoFile
           mid == UploadSingle(arrived, ok, ret)
           fin == IF mid.pc = "handler" THEN PostHandler(mid, nextId + 1) ELSE mid
       IN /\ reqs' = [reqs EXCEPT ![r] = IF f THEN Settle(fin, "upload", ok, ret) ELSE fin]
          /\ IF stored
               THEN nextAsset' = nextAsset + 1 /\ assets' = assets \cup {ret.filename}
               ELSE UNCHANGED <<assets, nextAsset>>
          /\ IF fin.pc = "save"
               THEN nextId' = nextId + 1 /\ constructLog' = Append(constructLog, nextId + 1)
               ELSE UNCHANGED <<nextId, constructLog>>
  /\ UNCHANGED <<store, clock, persistLog, deleted>>

\* the request as the handler leaves it once save() has settled
PostAnswerEarly(req, ok) ==
  [req EXCEPT !.pc = "done", !.status = 201, !.project = req.doc]

PostAnswer(req, ok) ==
  IF ok
    THEN [req EXCEPT !.pc = "done", !.status = 201, !.project = req.doc]
    ELSE [req EXCEPT !.pc = "done", !.status = 500,
                     !.error = IF validate(req.doc) THEN "save" ELSE "validation"]

\* save() settles: schema validation, then the insert, which may fail
PostSaveCompensating(r) ==
  /\ reqs[r].pc = "save"
  /\ \E inserted \in BOOLEAN :
       LET ok == validate(reqs[r].doc) /\ inserted
       IN /\ reqs' = [reqs EXCEPT ![r] = Settle(PostAnswer(reqs[r], ok), "save", ok, NoFile)]
          /\ IF ok
               THEN /\ store' = store \cup {reqs[r].doc}
                    /\ persistLog' = Append(persistLog, reqs[r].doc._id)
                    /\ UNCHANGED assets
               ELSE /\ assets' = assets \ {reqs[r].file.filename}
                    /\ UNCHANGED <<store, persistLog>>
  /\ UNCHANGED <<clock, nextId, nextAsset, constructLog, deleted>>

PostSave(r) ==
  /\ reqs[r].pc = "save"
  /\ \E inserted \in BOOLEAN :
       LET ok == validate(reqs[r].doc) /\ inserted
       IN /\ reqs' = [reqs EXCEPT ![r] = Settle(PostAnswer(reqs[r], ok), "save", ok, NoFile)]
          /\ IF ok
               THEN /\ store' = store \cup {reqs[r].doc}
                    /\ persistLog' = Append(persistLog, reqs[r].doc._id)
               ELSE UNCHANGED <<store, persistLog>>
  /\ UNCHANGED <<assets, clock, nextId, nextAsset, constructLog, deleted>>

\* ---- DELETE /api/projects/:id ----
\* the handler from findById settling to its next await; found holds the match
DeleteAfterFindByIdNo404(req, ok, found) ==
  IF ~ok
    THEN [req EXCEPT !.pc = "done", !.status = 500, !.error = "findById"]
    ELSE [req EXCEPT !.pc = "findByIdAndDelete",
                     !.dbCalls = Append(@, "findByIdAndDelete")]

DeleteAfterFindById(req, ok, found) ==
  IF ~ok
    THEN [req EXCEPT !.pc = "done", !.status = 500, !.error = "findById"]
    ELSE IF found = {}
      THEN [req EXCEPT !.pc = "done", !.status = 404, !.error = "Project not found"]
      ELSE LET project == CHOOSE d \in found : TRUE
           IN IF Truthy(project.publicId)
                THEN [req EXCEPT !.pc = "destroy", !.doc = project,
                        !.cdnCalls = Append(@, [op |-> "destroy", publicId |-> project.publicId])]
                ELSE [req EXCEPT !.pc = "findByIdAndDelete", !.doc = project,
                        !.dbCalls = Append(@, "findByIdAndDelete")]

\* a request arrives and findById settles
DeleteLookup(r, id) ==
  /\ Fresh(r)
  /\ \E ok \in BOOLEAN :
       reqs' = [reqs EXCEPT ![r] =
                  Settle(DeleteAfterFindById([Idle EXCEPT !.method = "DELETE", !.id = id,
                                                          !.dbCalls = <<"findById">>],
                                             ok, findById(store, id)),
                         "findById", ok, NoFile)]
  /\ UNCHANGED <<store, assets, clock, nextId, nextAsset, persistLog, constructLog, deleted>>

\* the handler from cloudinary.uploader.destroy settling to its next await
DeleteAfterDestroyUnawaited(req, ok) ==
  [req EXCEPT !.pc = "findByIdAndDelete", !.dbCalls = Append(@, "findByIdAndDelete")]

DeleteAfterDestroy(req, ok) ==
  IF ok
    THEN [req EXCEPT !.pc = "findByIdAndDelete", !.dbCalls = Append(@, "findByIdAndDelete")]
    ELSE [req EXCEPT !.pc = "done", !.status = 500, !.error = "destroy"]

\* destroy settles; a destroy that is rejected may or may not have removed the image
DeleteDestroy(r) ==
  /\ reqs[r].pc = "destroy"
  /\ \E ok, removed \in BOOLEAN :
       /\ ok => removed
       /\ assets' = IF removed THEN assets \ {reqs[r].doc.publicId} ELSE assets
       /\ reqs' = [reqs EXCEPT ![r] = Settle(DeleteAfterDestroy(reqs[r], ok), "destroy", ok, NoFile)]
  /\ UNCHANGED <<store, clock, nextId, nextAsset, persistLog, constructLog, deleted>>

\* Project.findByIdAndDelete(id) on the collection
findByIdAndDeleteKeeping(coll, id) == coll

findByIdAndDelete(coll, id) == coll \ findById(coll, id)

\* the request as the handler leaves it once findByIdAndDelete has settled
DeleteAnswer(req, ok) ==
  IF ok
    THEN [req EXCEPT !.pc = "done", !.status = 200, !.message = "Project deleted successfully"]
    ELSE [req EXCEPT !.pc = "done", !.status = 500, !.error = "findByIdAndDelete"]

DeleteFindByIdAndDelete(r) ==
  /\ reqs[r].pc = "findByIdAndDelete"
  /\ \E ok \in BOOLEAN :
       /\ reqs' = [reqs EXCEPT ![r] = Settle(DeleteAnswer(reqs[r], ok), "findByIdAndDelete", ok, NoFile)]
       /\ IF ok
            THEN /\ store' = findByIdAndDelete(store, reqs[r].id)
                 /\ deleted' = deleted \cup {reqs[r].id}
            ELSE UNCHANGED <<store, deleted>>
  /\ UNCHANGED <<assets, clock, nextId, nextAsset, persistLog, constructLog>>

Next ==
  \/ Tick
  \/ \E r \in Reqs : GetProjects(r)
  \/ \E r \in Reqs, u \in Uploads : PostUpload(r, u[1], u[2])
  \/ \E r \in Reqs : PostSave(r)
  \/ \E r \in Reqs, id \in ParamIds : DeleteLookup(r, id)
  \/ \E r \in Reqs : DeleteDestroy(r)
  \/ \E r \in Reqs : DeleteFindByIdAndDelete(r)

Spec == Init /\ [][Next]_vars

\* ---- vocabulary of the properties ----
Gets == {r \in Reqs : reqs[r].method = "GET"}
Posts == {r \in Reqs : reqs[r].method = "POST"}
Deletes == {r \in Reqs : reqs[r].method = "DELETE"}

Range(s) == {s[i] : i \in 1..Len(s)}

\* the awaited call of request r settled, with this outcome
Settled(r, call, ok) == \E e \in Range(reqs[r].settled) : e.call = call /\ e.ok = ok

IsEmpty(v) == v = Undefined \/ v = ""

\* createdAt of the document a POST handler constructed under this _id
CreatedAt(id) == reqs[CHOOSE r \in Posts : reqs[r].doc._id = id].doc.createdAt

\* request r is received and answers 200 to GET in this step
ListStep(r) == reqs[r].pc = "idle" /\ reqs'[r].method = "GET" /\ reqs'[r].status = 200

\* request r is received as a DELETE in this step and its lookup, which did not
\* fail, matches no record
AbsentLookupStep(r) ==
  /\ reqs[r].pc = "idle"
  /\ reqs'[r].method = "DELETE"
  /\ findById(store, reqs'[r].id) = {}
  /\ reqs'[r].settled[1].ok

\* C1: a DELETE whose lookup found a record with a publicId has called the remote
\* delete exactly once, with that publicId; it has called findByIdAndDelete only
\* if the remote delete succeeded; and if the remote delete failed it answered
\* 500 without calling findByIdAndDelete.
C1_DestroyOnceBeforeDelete ==
  \A r \in Deletes :
    (reqs[r].doc # NoDoc /\ ~IsEmpty(reqs[r].doc.publicId)) =>
      /\ reqs[r].cdnCalls = <<[op |-> "destroy", publicId |-> reqs[r].doc.publicId]>>
      /\ "findByIdAndDelete" \in Range(reqs[r].dbCalls) => Settled(r, "destroy", TRUE)
      /\ Settled(r, "destroy", FALSE) =>
           /\ reqs[r].pc = "done"
           /\ reqs[r].status = 500
           /\ reqs[r].dbCalls = <<"findById">>

C1_Witness ==
  /\ \E r \in Deletes : Settled(r, "destroy", FALSE) /\ reqs[r].status = 500
  /\ \E r \in Deletes : Settled(r, "destroy", TRUE) /\ reqs[r].status = 200

\* C2: a DELETE whose id matches no record answers 404 with the error
\* "Project not found", leaves the record store and the asset store unchanged and
\* calls neither the remote delete nor findByIdAndDelete.
C2_AbsentIdAnswers404 ==
  [][\A r \in Reqs :
       AbsentLookupStep(r) =>
         /\ reqs'[r].pc = "done"
         /\ reqs'[r].status = 404
         /\ reqs'[r].error = "Project not found"
         /\ store' = store
         /\ assets' = assets
         /\ reqs'[r].cdnCalls = <<>>
         /\ reqs'[r].dbCalls = <<"findById">>]_vars

C2_Witness ==
  \E r \in Deletes : reqs[r].status = 404 /\ reqs[r].id # AbsentId /\ store # {}

\* C3: a POST without a file answers 400, calls neither the record store nor the
\* asset store and constructs no record.
C3_NoFileAnswers400 ==
  \A r \in Posts :
    ~reqs[r].hasFile =>
      /\ reqs[r].pc = "done"
      /\ reqs[r].status = 400
      /\ reqs[r].cdnCalls = <<>>
      /\ reqs[r].dbCalls = <<>>
      /\ reqs[r].settled = <<>>
      /\ reqs[r].doc = NoDoc
      /\ \A d \in store : \E q \in Posts : q # r /\ reqs[q].doc = d

C3_Witness == \E r \in Posts : ~reqs[r].hasFile /\ reqs[r].status = 400

\* C4 as stated: a successful GET returns every record of the store, each once,
\* in strictly descending order of createdAt.
C4_StrictlyDescending ==
  [][\A r \in Reqs :
       ListStep(r) =>
         LET p == reqs'[r].projects
         IN /\ Range(p) = store
            /\ Len(p) = Cardinality(store)
            /\ \A i \in 1..(Len(p) - 1) : p[i].createdAt > p[i + 1].createdAt]_vars

\* C4 amended: a successful GET returns every record of the store, each once, in
\* non-increasing order of createdAt (records with equal createdAt in any order).
C4_NewestFirst ==
  [][\A r \in Reqs :
       ListStep(r) =>
         LET p == reqs'[r].projects
         IN /\ Range(p) = store
            /\ Len(p) = Cardinality(store)
            /\ \A i \in 1..(Len(p) - 1) : p[i].createdAt >= p[i + 1].createdAt]_vars

C4_Witness ==
  \E r \in Gets :
    /\ reqs[r].status = 200
    /\ Len(reqs[r].projects) >= 2
    /\ reqs[r].projects[1].createdAt > reqs[r].projects[2].createdAt
    /\ reqs[r].projects[1]._id > reqs[r].projects[2]._id

\* C5 as stated: of two persisted records, the one persisted later never has the
\* smaller createdAt.
C5_PersistenceOrder ==
  \A i, j \in 1..Len(persistLog) :
    i < j => CreatedAt(persistLog[i]) <= CreatedAt(persistLog[j])

\* C5 amended: of two persisted records, the one whose handler constructed it
\* later never has the smaller createdAt.
C5_ConstructionOrder ==
  \A i, j \in 1..Len(constructLog) :
    (i < j /\ constructLog[i] \in Range(persistLog) /\ constructLog[j] \in Range(persistLog))
      => CreatedAt(constructLog[i]) <= CreatedAt(constructLog[j])

C5_Witness ==
  \E i, j \in 1..Len(persistLog) :
    i < j /\ CreatedAt(persistLog[i]) < CreatedAt(persistLog[j])

\* C6: every record of the store is the document of a POST whose remote upload
\* succeeded before its save, with the URL and the identifier that upload
\* returned; a POST whose upload did not succeed never calls the record store.
C6_RecordFollowsUpload ==
  /\ \A d \in store :
       \E r \in Posts :
         /\ reqs[r].doc = d
         /\ Len(reqs[r].settled) = 2
         /\ reqs[r].settled[1].call = "upload" /\ reqs[r].settled[1].ok
         /\ reqs[r].settled[2].call = "save" /\ reqs[r].settled[2].ok
         /\ d.imageUrl = reqs[r].settled[1].ret.path
         /\ d.publicId = reqs[r].settled[1].ret.filename
  /\ \A r \in Posts :
       ~Settled(r, "upload", TRUE) =>
         /\ reqs[r].dbCalls = <<>>
         /\ reqs[r].doc = NoDoc

C6_Witness ==
  /\ store # {}
  /\ \E r \in Posts : Settled(r, "upload", FALSE)

\* C7: a GET answered 200 lists, with the same title, category, imageUrl and
\* publicId, the record of every POST that had answered 201 when the GET was
\* received, unless that record was deleted in between.
C7_RoundTrip ==
  \A g \in Gets :
    reqs[g].status = 200 =>
      \A u \in reqs[g].prior :
        reqs[u].project._id \notin reqs[g].gone =>
          \E i \in 1..Len(reqs[g].projects) :
            LET q == reqs[g].projects[i]
                p == reqs[u].project
            IN /\ q._id = p._id
               /\ q.title = p.title /\ q.title = reqs[u].title
               /\ q.category = p.category /\ q.category = reqs[u].category
               /\ q.imageUrl = p.imageUrl
               /\ q.publicId = p.publicId

C7_Witness ==
  \E g \in Gets :
    /\ reqs[g].status = 200
    /\ \E u \in reqs[g].prior : reqs[u].project._id \notin reqs[g].gone

\* C8: every record of the store has a non-empty title, category and imageUrl;
\* a POST whose title or category is missing or empty and that reached save()
\* failed there, answered 500 and persisted nothing.
C8_RequiredFields ==
  /\ \A d \in store : ~IsEmpty(d.title) /\ ~IsEmpty(d.category) /\ ~IsEmpty(d.imageUrl)
  /\ \A r \in Posts :
       ((IsEmpty(reqs[r].title) \/ IsEmpty(reqs[r].category))
          /\ reqs[r].dbCalls # <<>> /\ reqs[r].pc = "done") =>
         /\ reqs[r].status = 500
         /\ Settled(r, "save", FALSE)
         /\ reqs[r].doc._id \notin Range(persistLog)

C8_Witness ==
  /\ \E r \in Posts : IsEmpty(reqs[r].title) /\ reqs[r].status = 500 /\ Settled(r, "save", FALSE)
  /\ \E r \in Posts : IsEmpty(reqs[r].category) /\ reqs[r].status = 500 /\ Settled(r, "save", FALSE)

\* C9: a POST whose save failed after its upload answered 500 with an error, its
\* document is not in the store, no request ever called the remote delete for its
\* image, and the image is still in the asset store with no record referring to it.
C9_FailedSaveLeavesOrphan ==
  \A r \in Posts :
    Settled(r, "save", FALSE) =>
      /\ reqs[r].pc = "done"
      /\ reqs[r].status = 500
      /\ reqs[r].error # ""
      /\ reqs[r].doc._id \notin Range(persistLog)
      /\ reqs[r].cdnCalls = <<[op |-> "upload", publicId |-> reqs[r].file.filename]>>
      /\ reqs[r].file.filename \in assets
      /\ \A d \in store : d.publicId # reqs[r].file.filename
      /\ \A q \in Reqs : \A c \in Range(reqs[q].cdnCalls) :
           c.op = "destroy" => c.publicId # reqs[r].file.filename

C9_Witness ==
  \E r \in Posts : Settled(r, "save", FALSE) /\ validate(reqs[r].doc) /\ Len(persistLog) > 0

\* C10: once a DELETE has answered 200, the store holds no record with its id.
C10_DeletedStaysAbsent ==
  \A r \in Deletes : reqs[r].status = 200 => findById(store, reqs[r].id) = {}

C10_Witness ==
  \E r, q \in Deletes :
    /\ r # q
    /\ reqs[r].id = reqs[q].id
    /\ reqs[r].status = 200 /\ reqs[q].status = 200
    /\ Len(reqs[r].cdnCalls) = 1 /\ Len(reqs[q].cdnCalls) = 1
====
